---- MODULE Spec2Model ----
(***************************************************************************)
(* Contact book: the GraphQL resolver layer (createContact, updateContact, *)
(* deleteContact, getContact, getContacts) over the Contact collection.    *)
(*                                                                         *)
(* The collection is a sequence of documents in insertion order.  Every    *)
(* resolver is one store round trip, so each resolver is one atomic step.  *)
(* The Contact schema (models/Contact.js) is modelled from the data model  *)
(* of the specification: the store assigns a fresh id at creation and sets *)
(* createdAt and updatedAt to the time of creation.  The ids the store     *)
(* assigns are ObjectIds, and a query by id casts its argument to one.     *)
(*                                                                         *)
(* The mobile client keeps the list of contacts in the cache of its list   *)
(* query (ContactsContext): every mutation of the data layer is a request  *)
(* followed, once it has succeeded, by a second request that reads the     *)
(* list again.  A request and its response are separate steps, so requests *)
(* of several callers and of other clients interleave at the store.  The   *)
(* screens (list, new contact, contact, edit contact) are modelled by the  *)
(* route on top of the stack, the form with its error messages, and the    *)
(* handlers that wait for a call of the data layer.                        *)
(***************************************************************************)
EXTENDS Naturals, Sequences, FiniteSets

\* Bounds of the model.
MaxIds == 2       \* ids the store hands out in one run
MaxTime == 1      \* last reading of the clock
MaxContacts == 2  \* contacts of the list the search and the sections read

\* Argument values of the requests.  The resolvers treat the three fields
\* alike; the name has two values, so that an update can change a record.
Names == {"Ada Lovelace", "Grace Hopper"}
Emails == {"ada@example.com"}
Phones == {"555-0100"}

\* An argument the request leaves out (undefined in the resolver's args).
Undefined == "<undefined>"

\* The result of a lookup that matches no document.
Null == [null |-> TRUE]

\* The ids of the store's id type, ObjectId: the store assigns them in order.
\* A request may carry one before it is assigned or after its record is gone.
ObjectIds == 1..MaxIds

\* An id argument that is no ObjectId: the string "does-not-exist".
DoesNotExist == MaxIds + 1

\* The id arguments of the requests.
RequestIds == ObjectIds \cup {DoesNotExist}

VARIABLES
    store,      \* the Contact collection: a sequence of documents
    nextId,     \* the next id the store assigns
    now,        \* the clock read by new Date()
    req,        \* the last request the server handled: its operation, its id
                \* and, for an update, whether it left an argument out
    response,   \* the response to it: data or an error
    created,    \* history: ids returned by createContact
    deleted     \* history: ids for which deleteContact returned true

vars == <<store, nextId, now, req, response, created, deleted>>

\* The mobile client: the state of ContactsProvider.
VARIABLES
    data,       \* the result of useQuery(GET_CONTACTS), or NoData before it
    calls,      \* the calls of the data layer in progress, by caller
    fresh       \* history: no mutation has reached the store since the list
                \* in data was read from it

\* The mobile client: the state of the screens.
VARIABLES
    route,          \* the screen on top of the router's stack
    form,           \* form of the new-contact or edit-contact screen
    errors,         \* its field-level error messages
    isSubmitting,   \* isSubmitting of the new-contact or edit-contact screen
    isDeleting,     \* isDeleting of the contact screen
    alert,          \* the alert on display
    handlers,       \* the handler that awaits each call in progress
    error,          \* error of useQuery, as the list screen reads it
    refreshing,     \* the mounted screens whose refreshing is true
    query           \* the text of the search field of the list screen

screenVars ==
    <<route, form, errors, isSubmitting, isDeleting, alert, handlers, error,
      refreshing, query>>

clientVars == <<data, calls, fresh, screenVars>>

allVars == <<vars, clientVars>>

----------------------------------------------------------------------------
\* Responses of the GraphQL layer.

Data(v) == [kind |-> "data", value |-> v]

Error(m) == [kind |-> "error", message |-> m]

\* A query by id casts its id argument to the type of _id; an argument that
\* is no ObjectId makes the query reject, and the resolver's request fails.
CastError == Error("Cast to ObjectId failed")

----------------------------------------------------------------------------
\* The Contact model.

Range(s) == {s[i] : i \in 1..Len(s)}

Ids(docs) == {docs[i].id : i \in 1..Len(docs)}

\* Mutant of new Contact: the id is the count of the documents, so the id of
\* a deleted document is handed out again.
NewContact_CountedId(name, email, phone) ==
    [id |-> Len(store) + 1, name |-> name, email |-> email, phone |-> phone,
     createdAt |-> now, updatedAt |-> now]

\* new Contact({ name, email, phone }): the schema's id and timestamps.
NewContact(name, email, phone) ==
    [id |-> nextId, name |-> name, email |-> email, phone |-> phone,
     createdAt |-> now, updatedAt |-> now]

\* contact.save(): insert the document.
save(docs, doc) == Append(docs, doc)

\* Contact.find(): all documents, in the store's order.
find(docs) == docs

\* The position of the first document with the id, or 0 when none has it.
indexOfId(docs, id) ==
    IF \E i \in 1..Len(docs) : docs[i].id = id
    THEN CHOOSE i \in 1..Len(docs) :
             /\ docs[i].id = id
             /\ \A j \in 1..(i - 1) : docs[j].id # id
    ELSE 0

\* Contact.findById(id): the first document with that id, or null.
findById(docs, id) ==
    LET i == indexOfId(docs, id)
    IN  IF i = 0 THEN Null ELSE docs[i]

\* A value of an update document: <<>> for undefined, <<v>> for the value v.
Value(v) == IF v = Undefined THEN <<>> ELSE <<v>>

\* $set of the keys of an update whose value is not undefined.
applyUpdate(doc, update) ==
    [k \in DOMAIN doc |->
        IF k \in DOMAIN update /\ update[k] # <<>> THEN update[k][1] ELSE doc[k]]

\* Contact.findByIdAndUpdate(id, update, { new: true }): the collection after
\* the update and the updated document, or null when no document matches.
findByIdAndUpdate(docs, id, update) ==
    LET i == indexOfId(docs, id)
    IN  IF i = 0
        THEN [docs |-> docs, doc |-> Null]
        ELSE [docs |-> [docs EXCEPT ![i] = applyUpdate(docs[i], update)],
              doc |-> applyUpdate(docs[i], update)]

\* Contact.findByIdAndDelete(id): the collection without the first document
\* with that id, and that document, or null when no document matches.
findByIdAndDelete(docs, id) ==
    LET i == indexOfId(docs, id)
    IN  IF i = 0
        THEN [docs |-> docs, doc |-> Null]
        ELSE [docs |-> SubSeq(docs, 1, i - 1) \o SubSeq(docs, i + 1, Len(docs)),
              doc |-> docs[i]]

----------------------------------------------------------------------------
\* The resolvers.

Init ==
    /\ store = <<>>
    /\ nextId = 1
    /\ now = 0
    /\ req = [op |-> "none"]
    /\ response = Data(Null)
    /\ created = {}
    /\ deleted = {}

\* Time passes between requests.
Tick ==
    /\ now < MaxTime
    /\ now' = now + 1
    /\ UNCHANGED <<store, nextId, req, response, created, deleted>>

\* Mutant of getContacts: only the first document is returned.
getContacts_First(docs) ==
    Data(IF find(docs) = <<>> THEN <<>> ELSE <<Head(find(docs))>>)

\* Query.getContacts: the resolver's result on a collection.
getContacts(docs) == Data(find(docs))

\* Query.getContact: the resolver's result on a collection.
getContact(docs, id) ==
    IF id \notin ObjectIds THEN CastError ELSE Data(findById(docs, id))

\* A getContacts request.
GetContacts ==
    /\ req' = [op |-> "getContacts"]
    /\ response' = getContacts(store)
    /\ UNCHANGED <<store, nextId, now, created, deleted>>

\* A getContact request.
GetContact(id) ==
    /\ req' = [op |-> "getContact", id |-> id]
    /\ response' = getContact(store, id)
    /\ UNCHANGED <<store, nextId, now, created, deleted>>

\* Mutant of createContact: the contact is returned without being saved.
CreateContact_NotSaved(name, email, phone) ==
    /\ nextId <= MaxIds
    /\ LET contact == NewContact(name, email, phone)
       IN  /\ store' = store
           /\ response' = Data(contact)
           /\ created' = created \cup {contact.id}
    /\ nextId' = nextId + 1
    /\ req' = [op |-> "createContact"]
    /\ UNCHANGED <<now, deleted>>

\* Mutant of createContact: the contact is inserted twice.
CreateContact_SavedTwice(name, email, phone) ==
    /\ nextId <= MaxIds
    /\ LET contact == NewContact(name, email, phone)
       IN  /\ store' = save(save(store, contact), contact)
           /\ response' = Data(contact)
           /\ created' = created \cup {contact.id}
    /\ nextId' = nextId + 1
    /\ req' = [op |-> "createContact"]
    /\ UNCHANGED <<now, deleted>>

\* Mutation.createContact
CreateContact(name, email, phone) ==
    /\ nextId <= MaxIds
    /\ LET contact == NewContact(name, email, phone)
       IN  /\ store' = save(store, contact)
           /\ response' = Data(contact)
           /\ created' = created \cup {contact.id}
    /\ nextId' = nextId + 1
    /\ req' = [op |-> "createContact"]
    /\ UNCHANGED <<now, deleted>>

\* Mutant of the update document: an omitted argument is written as "".
UpdateDocument_Blank(name, email, phone) ==
    [name |-> <<IF name = Undefined THEN "" ELSE name>>,
     email |-> <<IF email = Undefined THEN "" ELSE email>>,
     phone |-> <<IF phone = Undefined THEN "" ELSE phone>>,
     updatedAt |-> <<now>>]

\* Mutant of the update document: updatedAt is the epoch, not the clock.
UpdateDocument_Epoch(name, email, phone) ==
    [name |-> Value(name), email |-> Value(email), phone |-> Value(phone),
     updatedAt |-> <<0>>]

\* Mutant of the update document: createdAt is refreshed too.
UpdateDocument_Recreated(name, email, phone) ==
    [name |-> Value(name), email |-> Value(email), phone |-> Value(phone),
     createdAt |-> <<now>>, updatedAt |-> <<now>>]

\* Mutant of the update document: updatedAt is left out.
UpdateDocument_NoTimestamp(name, email, phone) ==
    [name |-> Value(name), email |-> Value(email), phone |-> Value(phone)]

\* The update document { name, email, phone, updatedAt: new Date() }.
UpdateDocument(name, email, phone) ==
    [name |-> Value(name), email |-> Value(email), phone |-> Value(phone),
     updatedAt |-> <<now>>]

\* Mutant of updateContact: a version check rejects the update of a record
\* that another update, whose call is still in progress, has written.
UpdateContact_VersionChecked(id, name, email, phone) ==
    /\ IF id \notin ObjectIds
       THEN /\ store' = store
            /\ response' = CastError
       ELSE IF \E d \in DOMAIN calls :
                  /\ calls[d].fn = "updateContact"
                  /\ calls[d].pc \in {"mutation", "refetch"}
                  /\ calls[d].response # Null
                  /\ calls[d].variables.id = id
            THEN /\ store' = store
                 /\ response' = Error("Version conflict")
            ELSE LET r == findByIdAndUpdate(store, id,
                                            UpdateDocument(name, email, phone))
                 IN  /\ store' = r.docs
                     /\ response' = IF r.doc = Null
                                    THEN Error("Contact not found")
                                    ELSE Data(r.doc)
    /\ req' = [op |-> "updateContact", id |-> id,
               partial |-> Undefined \in {name, email, phone}]
    /\ UNCHANGED <<nextId, now, created, deleted>>

\* Mutant of updateContact: the result of the store call is returned without
\* the not-found check.
UpdateContact_NoThrow(id, name, email, phone) ==
    /\ IF id \notin ObjectIds
       THEN /\ store' = store
            /\ response' = CastError
       ELSE LET r == findByIdAndUpdate(store, id,
                                       UpdateDocument(name, email, phone))
            IN  /\ store' = r.docs
                /\ response' = Data(r.doc)
    /\ req' = [op |-> "updateContact", id |-> id,
               partial |-> Undefined \in {name, email, phone}]
    /\ UNCHANGED <<nextId, now, created, deleted>>

\* Mutation.updateContact
UpdateContact(id, name, email, phone) ==
    /\ IF id \notin ObjectIds
       THEN /\ store' = store
            /\ response' = CastError
       ELSE LET r == findByIdAndUpdate(store, id,
                                       UpdateDocument(name, email, phone))
            IN  /\ store' = r.docs
                /\ response' = IF r.doc = Null
                               THEN Error("Contact not found")
                               ELSE Data(r.doc)
    /\ req' = [op |-> "updateContact", id |-> id,
               partial |-> Undefined \in {name, email, phone}]
    /\ UNCHANGED <<nextId, now, created, deleted>>

\* Mutation.deleteContact
DeleteContact(id) ==
    /\ IF id \notin ObjectIds
       THEN /\ store' = store
            /\ response' = CastError
            /\ deleted' = deleted
       ELSE LET r == findByIdAndDelete(store, id)
            IN  /\ store' = r.docs
                /\ response' = Data(r.doc # Null)
                /\ deleted' = IF r.doc # Null THEN deleted \cup {id} ELSE deleted
    /\ req' = [op |-> "deleteContact", id |-> id]
    /\ UNCHANGED <<nextId, now, created>>

----------------------------------------------------------------------------
\* The state of the client data layer (ContactsProvider).

\* data of useQuery before the first result.
NoData == [undefined |-> TRUE]

\* The callers of the data layer: two calls can be in progress at a time.
Callers == {"first", "second"}

\* A call of a function of the data layer, or the query useQuery sends when
\* the provider mounts.
\*   pc        "idle", "mutation" (awaiting the mutation), "refetch"
\*             (awaiting refetch), "resolved" or "rejected"
\*   net       the awaited request: "sent", or "handled" by the server with
\*             the response on its way
\*   variables the variables of the mutation
\*   response  the response to the mutation
\*   list      the response to the list query
\*   result    the value the call resolved with
\*   clean     history: no other mutation reached the store between this
\*             call's mutation and its list query
\*   current   history: no mutation reached the store since list was read
Call(fn, pc, variables) ==
    [fn |-> fn, pc |-> pc, net |-> IF pc = "idle" THEN "none" ELSE "sent",
     variables |-> variables, response |-> Null, list |-> Null,
     result |-> Undefined, clean |-> FALSE, current |-> FALSE]

\* A call that has resolved with a result, or rejected.
Settled(fn, pc, result) ==
    [Call(fn, pc, <<>>) EXCEPT !.net = "none", !.result = result]

ClientInit ==
    /\ data = NoData
    /\ calls = [c \in Callers |->
                  IF c = "first"
                  THEN Call("useQuery", "refetch", <<>>)
                  ELSE Call("none", "idle", <<>>)]
    /\ fresh = FALSE

----------------------------------------------------------------------------
\* The state of the screens.

\* A route of the router: the pathname and the id parameter.
Route(name, id) == [name |-> name, id |-> id]

\* The list screen (app/index.tsx).
Index == Route("/", DoesNotExist)

\* No alert is on display.
NoAlert == [title |-> "none", id |-> DoesNotExist]

\* No handler awaits the call.
NoHandler == [name |-> "none", at |-> Index, live |-> FALSE]

\* The form of a screen before any input: the strings are sequences of
\* characters.
emptyForm == [name |-> <<>>, email |-> <<>>, phone |-> <<>>]

\* No field has an error message.
NoErrors == [name |-> Undefined, email |-> Undefined, phone |-> Undefined]

\* The app starts on the list screen.
ScreenInit ==
    /\ route = Index
    /\ form = emptyForm
    /\ errors = NoErrors
    /\ isSubmitting = FALSE
    /\ isDeleting = FALSE
    /\ alert = NoAlert
    /\ handlers = [c \in Callers |-> NoHandler]
    /\ error = FALSE
    /\ refreshing = {}
    /\ query = <<>>

----------------------------------------------------------------------------
\* The server on its own: requests of any client, in any order.

Next ==
    \/ Tick /\ UNCHANGED clientVars
    \/ GetContacts /\ UNCHANGED clientVars
    \/ \E id \in RequestIds : GetContact(id) /\ UNCHANGED clientVars
    \/ \E name \in Names, email \in Emails, phone \in Phones :
           CreateContact(name, email, phone) /\ UNCHANGED clientVars
    \/ \E id \in RequestIds,
          name \in Names \cup {Undefined},
          email \in Emails \cup {Undefined},
          phone \in Phones \cup {Undefined} :
           UpdateContact(id, name, email, phone) /\ UNCHANGED clientVars
    \/ \E id \in RequestIds : DeleteContact(id) /\ UNCHANGED clientVars

\* The server with an empty collection, and the app as it opens.
AppInit == Init /\ ClientInit /\ ScreenInit

\* The server with no client of this repository running.
Spec == AppInit /\ [][Next]_allVars

----------------------------------------------------------------------------
\* The client data layer: ContactsProvider over useQuery and useMutation.

\* The drafts the callers pass: the client sends all three fields.
Drafts == [name : Names, email : Emails, phone : Phones]

\* The functions of the data layer that send a mutation.
Mutations == {"addContact", "updateContact", "deleteContact"}

\* contacts: data?.getContacts ?? []
contacts == IF data = NoData THEN <<>> ELSE data.getContacts

\* The result of Array.find when no element matches: undefined.
NotFound == [undefined |-> TRUE]

\* Mutant of getContactById: the store is read, not the cached list.
getContactById_Live(list, id) ==
    IF id \in Ids(store) THEN store[indexOfId(store, id)] ELSE NotFound

\* getContactById: contacts.find((contact) => contact.id === id)
getContactById(list, id) ==
    IF id \in Ids(list) THEN list[indexOfId(list, id)] ELSE NotFound

\* A call is in progress while it awaits a request.
InProgress(c) == calls[c].pc \in {"mutation", "refetch"}

\* A caller can start a call when it awaits none.  The first call in
\* progress is the query of the mount; the second caller is the one that
\* calls while a call of the first is in progress.
CanCall(c) ==
    /\ ~InProgress(c)
    /\ c = "second" => InProgress("first")

\* refreshContacts: await refetch().
RefreshContacts(c) ==
    /\ CanCall(c)
    /\ calls' = [calls EXCEPT ![c] = Call("refreshContacts", "refetch", <<>>)]
    /\ UNCHANGED <<data, fresh>>
    /\ UNCHANGED vars

\* addContact, up to its first await: the create request is sent.
AddContact(c, draft) ==
    /\ CanCall(c)
    /\ calls' = [calls EXCEPT ![c] = Call("addContact", "mutation", draft)]
    /\ UNCHANGED <<data, fresh>>
    /\ UNCHANGED vars

\* updateContact of the data layer, up to its first await.
ClientUpdateContact(c, id, draft) ==
    /\ CanCall(c)
    /\ calls' = [calls EXCEPT ![c] =
                    Call("updateContact", "mutation",
                         [id |-> id, name |-> draft.name,
                          email |-> draft.email, phone |-> draft.phone])]
    /\ UNCHANGED <<data, fresh>>
    /\ UNCHANGED vars

\* Mutant of deleteContact: the mutation is sent and not awaited, so the
\* list query goes out along with it.
ClientDeleteContact_NotAwaited(c, id) ==
    /\ CanCall(c)
    /\ calls' = [calls EXCEPT ![c] =
                    Call("deleteContact", "refetch", [id |-> id])]
    /\ UNCHANGED <<data, fresh>>
    /\ UNCHANGED vars

\* deleteContact of the data layer, up to its first await.
ClientDeleteContact(c, id) ==
    /\ CanCall(c)
    /\ calls' = [calls EXCEPT ![c] =
                    Call("deleteContact", "mutation", [id |-> id])]
    /\ UNCHANGED <<data, fresh>>
    /\ UNCHANGED vars

\* The history of the other calls when a mutation reaches the store: a list
\* read before it is no longer current, and a call whose list is still to
\* be read is no longer alone between its mutation and its list query.
Overtaken(call) ==
    [call EXCEPT !.current = FALSE,
                 !.clean = IF call.pc = "refetch" /\ call.net = "handled"
                           THEN @ ELSE FALSE]

\* The resolver of the mutation a call sent.
Resolver(call) ==
    LET v == call.variables
    IN  \/ /\ call.fn = "addContact"
           /\ CreateContact(v.name, v.email, v.phone)
        \/ /\ call.fn = "updateContact"
           /\ UpdateContact(v.id, v.name, v.email, v.phone)
        \/ /\ call.fn = "deleteContact"
           /\ DeleteContact(v.id)

\* The server handles the mutation request of a call.
ServeMutation(c) ==
    /\ calls[c].pc = "mutation"
    /\ calls[c].net = "sent"
    /\ Resolver(calls[c])
    /\ calls' = [d \in DOMAIN calls |->
                    IF d = c
                    THEN [calls[c] EXCEPT !.net = "handled",
                                          !.response = response',
                                          !.clean = TRUE]
                    ELSE Overtaken(calls[d])]
    /\ fresh' = FALSE
    /\ UNCHANGED data

\* The server handles the list query of a call.
ServeQuery(c) ==
    /\ calls[c].pc = "refetch"
    /\ calls[c].net = "sent"
    /\ GetContacts
    /\ calls' = [calls EXCEPT ![c].net = "handled",
                              ![c].list = response',
                              ![c].current = TRUE]
    /\ UNCHANGED <<data, fresh>>

\* The value a call returns after its refresh.
Returned(call) ==
    IF call.fn = "addContact" THEN call.response.value.id ELSE Undefined

\* Mutant of the continuation after the mutation: the created contact is put
\* into the cached list before the refresh.
AfterMutation_Optimistic(c) ==
    /\ calls[c].pc = "mutation"
    /\ calls[c].net = "handled"
    /\ IF calls[c].response.kind = "error"
       THEN /\ calls' = [calls EXCEPT ![c] =
                              Settled(calls[c].fn, "rejected", Undefined)]
            /\ data' = data
       ELSE /\ calls' = [calls EXCEPT ![c].pc = "refetch", ![c].net = "sent"]
            /\ data' = IF calls[c].fn = "addContact"
                       THEN [getContacts |->
                                Append(contacts, calls[c].response.value)]
                       ELSE data
    /\ UNCHANGED fresh
    /\ UNCHANGED vars

\* Mutant of the continuation after the mutation: a failed mutation is
\* swallowed and the refresh runs all the same.
AfterMutation_Swallowed(c) ==
    /\ calls[c].pc = "mutation"
    /\ calls[c].net = "handled"
    /\ calls' = [calls EXCEPT ![c].pc = "refetch", ![c].net = "sent"]
    /\ UNCHANGED <<data, fresh>>
    /\ UNCHANGED vars

\* Mutant of the continuation after the mutation: the call resolves with its
\* result at once, and no refresh follows.
AfterMutation_NoRefresh(c) ==
    /\ calls[c].pc = "mutation"
    /\ calls[c].net = "handled"
    /\ IF calls[c].response.kind = "error"
       THEN calls' = [calls EXCEPT ![c] =
                              Settled(calls[c].fn, "rejected", Undefined)]
       ELSE calls' = [calls EXCEPT ![c] =
                              Settled(calls[c].fn, "resolved", Returned(calls[c]))]
    /\ UNCHANGED <<data, fresh>>
    /\ UNCHANGED vars

\* The response to the mutation arrives: the awaited mutation rejects on an
\* error result, which ends the call; otherwise the call goes on to
\* await refreshContacts(), which sends the list query.
AfterMutation(c) ==
    /\ calls[c].pc = "mutation"
    /\ calls[c].net = "handled"
    /\ IF calls[c].response.kind = "error"
       THEN calls' = [calls EXCEPT ![c] =
                              Settled(calls[c].fn, "rejected", Undefined)]
       ELSE calls' = [calls EXCEPT ![c].pc = "refetch", ![c].net = "sent"]
    /\ UNCHANGED <<data, fresh>>
    /\ UNCHANGED vars

\* Mutant of the arrival of the list: the list is merged into the cached
\* list, whose other entries stay.
AfterRefetch_Merged(c) ==
    /\ calls[c].pc = "refetch"
    /\ calls[c].net = "handled"
    /\ data' = [getContacts |->
                   calls[c].list.value \o
                   SelectSeq(contacts,
                             LAMBDA k : k.id \notin Ids(calls[c].list.value))]
    /\ fresh' = calls[c].current
    /\ calls' = [calls EXCEPT ![c] =
                    Settled(calls[c].fn, "resolved", Returned(calls[c]))]
    /\ UNCHANGED vars

\* Mutant of the arrival of the list: a list read before the last mutation
\* reached the store is dropped.
AfterRefetch_Latest(c) ==
    /\ calls[c].pc = "refetch"
    /\ calls[c].net = "handled"
    /\ data' = IF calls[c].current
               THEN [getContacts |-> calls[c].list.value]
               ELSE data
    /\ fresh' = IF calls[c].current THEN TRUE ELSE fresh
    /\ calls' = [calls EXCEPT ![c] =
                    Settled(calls[c].fn, "resolved", Returned(calls[c]))]
    /\ UNCHANGED vars

\* Mutant of the arrival of the list: the list is appended to the cached
\* list.
AfterRefetch_Appended(c) ==
    /\ calls[c].pc = "refetch"
    /\ calls[c].net = "handled"
    /\ data' = [getContacts |-> contacts \o calls[c].list.value]
    /\ fresh' = calls[c].current
    /\ calls' = [calls EXCEPT ![c] =
                    Settled(calls[c].fn, "resolved", Returned(calls[c]))]
    /\ UNCHANGED vars

\* The response to the list query arrives: it becomes data, and the call
\* resolves.
AfterRefetch(c) ==
    /\ calls[c].pc = "refetch"
    /\ calls[c].net = "handled"
    /\ data' = [getContacts |-> calls[c].list.value]
    /\ fresh' = calls[c].current
    /\ calls' = [calls EXCEPT ![c] =
                    Settled(calls[c].fn, "resolved", Returned(calls[c]))]
    /\ UNCHANGED vars

\* Mutant of the failure of a request: a retry link sends a failed mutation
\* again.
RequestFails_Retried(c) ==
    /\ calls[c].pc \in {"mutation", "refetch"}
    /\ calls' = IF calls[c].pc = "mutation"
                THEN [calls EXCEPT ![c].net = "sent", ![c].response = Null]
                ELSE [calls EXCEPT ![c] =
                         Settled(calls[c].fn, "rejected", Undefined)]
    /\ UNCHANGED <<data, fresh>>
    /\ UNCHANGED vars

\* The awaited request fails in the network, on its way or on the way back
\* of its response: the call rejects, and data stays.
RequestFails(c) ==
    /\ calls[c].pc \in {"mutation", "refetch"}
    /\ calls' = [calls EXCEPT ![c] =
                              Settled(calls[c].fn, "rejected", Undefined)]
    /\ UNCHANGED <<data, fresh>>
    /\ UNCHANGED vars

\* A mutation of another client reaches the store.
OtherClient ==
    /\ \/ \E draft \in Drafts :
              CreateContact(draft.name, draft.email, draft.phone)
       \/ \E id \in ObjectIds, draft \in Drafts :
              UpdateContact(id, draft.name, draft.email, draft.phone)
       \/ \E id \in ObjectIds : DeleteContact(id)
    /\ calls' = [d \in DOMAIN calls |-> Overtaken(calls[d])]
    /\ fresh' = FALSE
    /\ UNCHANGED data

\* A step of a caller or of its requests.
Client(c) ==
    \/ RefreshContacts(c) /\ UNCHANGED screenVars
    \/ \E draft \in Drafts : AddContact(c, draft) /\ UNCHANGED screenVars
    \/ \E id \in RequestIds, draft \in Drafts :
           ClientUpdateContact(c, id, draft) /\ UNCHANGED screenVars
    \/ \E id \in RequestIds : ClientDeleteContact(c, id) /\ UNCHANGED screenVars
    \/ ServeMutation(c) /\ UNCHANGED screenVars
    \/ ServeQuery(c) /\ UNCHANGED screenVars
    \/ AfterMutation(c) /\ UNCHANGED screenVars
    \/ AfterRefetch(c) /\ UNCHANGED screenVars
    \/ RequestFails(c) /\ UNCHANGED screenVars

ClientNext ==
    \/ Client("first")
    \/ OtherClient /\ UNCHANGED screenVars

\* The client, one call at a time, and the server, which other clients
\* write to.
ClientSpec == AppInit /\ [][ClientNext]_allVars

\* A step of one of two callers that mutate, or of its requests, on a
\* network that loses nothing.
Concurrent(c) ==
    \/ \E draft \in Drafts : AddContact(c, draft) /\ UNCHANGED screenVars
    \/ \E id \in ObjectIds, draft \in Drafts :
           ClientUpdateContact(c, id, draft) /\ UNCHANGED screenVars
    \/ \E id \in ObjectIds : ClientDeleteContact(c, id) /\ UNCHANGED screenVars
    \/ ServeMutation(c) /\ UNCHANGED screenVars
    \/ ServeQuery(c) /\ UNCHANGED screenVars
    \/ AfterMutation(c) /\ UNCHANGED screenVars
    \/ AfterRefetch(c) /\ UNCHANGED screenVars

ConcurrentNext == \E c \in Callers : Concurrent(c)

\* The client with two callers, whose calls overlap, and the server.
ConcurrentSpec ==
    AppInit /\ [][ConcurrentNext]_allVars

----------------------------------------------------------------------------
\* The screens: the list, the new-contact, the contact and the edit-contact
\* screen, with the handlers that call the data layer.

\* Mutant of isMutating: the flag stays up until the call has resolved.
isMutating_WholeCall ==
    \E c \in Callers : calls[c].fn \in Mutations /\ InProgress(c)

\* isMutating: creating || updating || deleting of the three useMutation.
isMutating ==
    \E c \in Callers : calls[c].fn \in Mutations /\ calls[c].pc = "mutation"

\* loading of useQuery: the query of the mount is on its way.
loading == calls["first"].fn = "useQuery" /\ InProgress("first")

\* The list screen shows the list: neither the loading nor the error view.
ListShown == ~(loading /\ contacts = <<>>) /\ ~(error /\ contacts = <<>>)

\* The contact or edit-contact screen shows its contact.
ContactShown == route.id \in Ids(contacts)

\* router.back(): the screen under the one on top.
Parent(r) ==
    IF r.name = "/contacts/[id]/edit" THEN Route("/contacts/[id]", r.id)
    ELSE Index

\* The screen a handler ran on is still mounted when the route on top is r:
\* the contact screen stays mounted under its edit-contact screen, and the
\* list screen under every screen.
Mounted(at, r) ==
    \/ r = at
    \/ /\ at.name = "/contacts/[id]"
       /\ r = Route("/contacts/[id]/edit", at.id)
    \/ at = Index

\* The state of the screen on top after the router goes to r: a screen that
\* mounts starts with its initial state.
SubmittingAt(r) == IF r = route THEN isSubmitting ELSE FALSE

DeletingAt(r) ==
    IF /\ r.name \in {"/contacts/[id]", "/contacts/[id]/edit"}
       /\ route.name \in {"/contacts/[id]", "/contacts/[id]/edit"}
       /\ r.id = route.id
    THEN isDeleting
    ELSE FALSE

HandlersAt(r) ==
    [c \in Callers |->
        [handlers[c] EXCEPT !.live = @ /\ Mounted(handlers[c].at, r)]]

\* Mutant of the form of the screen on top: the effect of the edit-contact
\* screen runs when the screen mounts and not again.
FormAt_MountOnly(r, list) ==
    LET contact == getContactById(list, r.id)
        mounts == r # route
    IN  IF mounts
        THEN IF r.name = "/contacts/[id]/edit" /\ contact # NotFound
             THEN [name |-> contact.name, email |-> contact.email,
                   phone |-> contact.phone]
             ELSE emptyForm
        ELSE form

RefreshingAt(r) == {at \in refreshing : Mounted(at, r)}

ErrorsAt(r) == IF r = route THEN errors ELSE NoErrors

\* The form of the screen on top when the route is r and the cached list is
\* list.  A form screen mounts with the empty form; the effect of the
\* edit-contact screen, which runs when the screen mounts and when the
\* contact getContactById returns changes, sets the form to the fields of
\* the contact if there is one.
FormAt(r, list) ==
    LET contact == getContactById(list, r.id)
        mounts == r # route
    IN  IF /\ r.name = "/contacts/[id]/edit"
           /\ contact # NotFound
           /\ mounts \/ contact # getContactById(contacts, r.id)
        THEN [name |-> contact.name, email |-> contact.email,
              phone |-> contact.phone]
        ELSE IF mounts THEN emptyForm ELSE form

\* The router goes to r.
Navigate(r) ==
    /\ route' = r
    /\ form' = FormAt(r, contacts)
    /\ errors' = ErrorsAt(r)
    /\ isSubmitting' = SubmittingAt(r)
    /\ isDeleting' = DeletingAt(r)
    /\ handlers' = HandlersAt(r)
    /\ refreshing' = RefreshingAt(r)
    /\ UNCHANGED <<alert, error, query>>
    /\ UNCHANGED <<data, calls, fresh>>
    /\ UNCHANGED vars

\* index.tsx handleAddContact
handleAddContact ==
    /\ route = Index
    /\ alert = NoAlert
    /\ ListShown
    /\ Navigate(Route("/contacts/new", DoesNotExist))

\* index.tsx handleOpenContact
handleOpenContact(id) ==
    /\ route = Index
    /\ alert = NoAlert
    /\ ListShown
    /\ id \in Ids(contacts)
    /\ Navigate(Route("/contacts/[id]", id))

\* handleGoBack of the new-contact, contact and edit-contact screens.
handleGoBack ==
    /\ route # Index
    /\ alert = NoAlert
    /\ route.name = "/contacts/[id]" \/ ~isSubmitting
    /\ Navigate(Parent(route))

\* [id].tsx handleEdit
handleEdit ==
    /\ route.name = "/contacts/[id]"
    /\ alert = NoAlert
    /\ ContactShown
    /\ Navigate(Route("/contacts/[id]/edit", route.id))

\* [id].tsx requestDelete: the confirmation alert.
requestDelete ==
    /\ route.name = "/contacts/[id]"
    /\ alert = NoAlert
    /\ ContactShown
    /\ ~(isDeleting \/ isMutating)
    /\ alert' = [title |-> "Delete contact", id |-> route.id]
    /\ UNCHANGED <<route, form, errors, isSubmitting, isDeleting, handlers, error,
                   refreshing, query>>
    /\ UNCHANGED <<data, calls, fresh>>
    /\ UNCHANGED vars

\* An alert is dismissed: Cancel of the confirmation, or OK of a failure.
Dismiss ==
    /\ alert # NoAlert
    /\ alert' = NoAlert
    /\ UNCHANGED <<route, form, errors, isSubmitting, isDeleting, handlers, error,
                   refreshing, query>>
    /\ UNCHANGED <<data, calls, fresh>>
    /\ UNCHANGED vars

\* A handler starts to await a call on the screen on top.
Awaits(c, name, at) ==
    handlers' = [handlers EXCEPT ![c] =
                    [name |-> name, at |-> at, live |-> route = at]]

\* [id].tsx requestDelete: Delete of the confirmation alert.
ConfirmDelete(c) ==
    /\ alert.title = "Delete contact"
    /\ ClientDeleteContact(c, alert.id)
    /\ Awaits(c, "requestDelete", Route("/contacts/[id]", alert.id))
    /\ isDeleting' = IF route = Route("/contacts/[id]", alert.id)
                     THEN TRUE
                     ELSE isDeleting
    /\ alert' = NoAlert
    /\ UNCHANGED <<route, form, errors, isSubmitting, error, refreshing, query>>

\* handleRefresh of the list, contact and edit-contact screens: the pull on
\* the RefreshControl, which takes none while refreshing is true.
handleRefresh(c) ==
    /\ route.name \in {"/", "/contacts/[id]", "/contacts/[id]/edit"}
    /\ alert = NoAlert
    /\ IF route = Index THEN ListShown ELSE ContactShown
    /\ route \notin refreshing
    /\ RefreshContacts(c)
    /\ Awaits(c, "handleRefresh", route)
    /\ refreshing' = refreshing \cup {route}
    /\ UNCHANGED <<route, form, errors, isSubmitting, isDeleting, alert, error,
                   query>>

\* handleSave of the new-contact screen, from the payload validate() has
\* returned for a valid form, with no error message.  Save is disabled while
\* isSubmitting.
NewContactSave(c, payload) ==
    /\ route.name = "/contacts/new"
    /\ alert = NoAlert
    /\ ~isSubmitting
    /\ AddContact(c, payload)
    /\ Awaits(c, "NewContactScreen.handleSave", route)
    /\ errors' = NoErrors
    /\ isSubmitting' = TRUE
    /\ UNCHANGED <<route, form, isDeleting, alert, error, refreshing, query>>

\* handleSave of the edit-contact screen, from the payload validate() has
\* returned.  Save changes is disabled while isSubmitting || isMutating.
EditContactSave(c, payload) ==
    /\ route.name = "/contacts/[id]/edit"
    /\ alert = NoAlert
    /\ ContactShown
    /\ ~(isSubmitting \/ isMutating)
    /\ ClientUpdateContact(c, route.id, payload)
    /\ Awaits(c, "EditContactScreen.handleSave", route)
    /\ errors' = NoErrors
    /\ isSubmitting' = TRUE
    /\ UNCHANGED <<route, form, isDeleting, alert, error, refreshing, query>>

\* The route after the call of a handler has resolved.
RouteAfter(h, result) ==
    IF h.name = "NewContactScreen.handleSave" THEN Route("/contacts/[id]", result)
    ELSE IF h.name = "EditContactScreen.handleSave" THEN Parent(route)
    ELSE IF h.name = "requestDelete" THEN Index
    ELSE route

\* The alert of the catch block of a handler.
AlertAfter(h) ==
    IF h.name = "NewContactScreen.handleSave"
    THEN [title |-> "Something went wrong", id |-> DoesNotExist]
    ELSE IF h.name = "EditContactScreen.handleSave"
    THEN [title |-> "Update failed", id |-> DoesNotExist]
    ELSE IF h.name = "requestDelete"
    THEN [title |-> "Delete failed", id |-> DoesNotExist]
    ELSE alert

\* Mutant of the rest of the handler: the flags are reset after the await,
\* not in a finally block, so a call that rejects leaves them up.
Continues_NoFinally(c) ==
    LET h == handlers[c]
        settled == calls'[c].pc \in {"resolved", "rejected"}
        resolved == calls'[c].pc = "resolved"
        r == IF resolved THEN RouteAfter(h, calls'[c].result) ELSE route
        saves == h.name \in {"NewContactScreen.handleSave",
                             "EditContactScreen.handleSave"}
    IN  /\ route' = r
        /\ alert' = IF calls'[c].pc = "rejected" THEN AlertAfter(h) ELSE alert
        /\ isSubmitting' = IF resolved /\ saves /\ h.live
                           THEN FALSE
                           ELSE SubmittingAt(r)
        /\ isDeleting' = IF resolved /\ h.name = "requestDelete" /\ h.live
                         THEN FALSE
                         ELSE DeletingAt(r)
        /\ refreshing' = IF resolved /\ h.name = "handleRefresh" /\ h.live
                         THEN RefreshingAt(r) \ {h.at}
                         ELSE RefreshingAt(r)
        /\ handlers' = IF settled
                       THEN [HandlersAt(r) EXCEPT ![c] = NoHandler]
                       ELSE handlers
        /\ form' = FormAt(r, contacts')
        /\ errors' = ErrorsAt(r)
        /\ UNCHANGED query

\* The rest of the handler that awaits call c, once the call has settled in
\* the step: the navigation after the await or the alert of the catch block,
\* and the finally block, which resets the flag of a screen still mounted.
Continues(c) ==
    LET h == handlers[c]
        settled == calls'[c].pc \in {"resolved", "rejected"}
        r == IF calls'[c].pc = "resolved"
             THEN RouteAfter(h, calls'[c].result)
             ELSE route
        saves == h.name \in {"NewContactScreen.handleSave",
                             "EditContactScreen.handleSave"}
    IN  /\ route' = r
        /\ alert' = IF calls'[c].pc = "rejected" THEN AlertAfter(h) ELSE alert
        /\ isSubmitting' = IF settled /\ saves /\ h.live
                           THEN FALSE
                           ELSE SubmittingAt(r)
        /\ isDeleting' = IF settled /\ h.name = "requestDelete" /\ h.live
                         THEN FALSE
                         ELSE DeletingAt(r)
        /\ refreshing' = IF settled /\ h.name = "handleRefresh" /\ h.live
                         THEN RefreshingAt(r) \ {h.at}
                         ELSE RefreshingAt(r)
        /\ handlers' = IF settled
                       THEN [HandlersAt(r) EXCEPT ![c] = NoHandler]
                       ELSE handlers
        /\ form' = FormAt(r, contacts')
        /\ errors' = ErrorsAt(r)
        /\ UNCHANGED query

\* The response to the mutation of a call arrives on the device.
MutationReturns(c) ==
    /\ AfterMutation(c)
    /\ Continues(c)
    /\ UNCHANGED error

\* The response to the list query of a call arrives on the device.
RefetchReturns(c) ==
    /\ AfterRefetch(c)
    /\ Continues(c)
    /\ error' = FALSE

\* The request a call awaits fails.
AwaitedRequestFails(c) ==
    /\ RequestFails(c)
    /\ Continues(c)
    /\ error' = IF calls[c].pc = "refetch" THEN TRUE ELSE error

AppNext ==
    \/ handleAddContact
    \/ \E id \in ObjectIds : handleOpenContact(id)
    \/ handleGoBack
    \/ handleEdit
    \/ requestDelete
    \/ Dismiss
    \/ \E c \in Callers : ConfirmDelete(c)
    \/ \E c \in Callers, payload \in Drafts : NewContactSave(c, payload)
    \/ \E c \in Callers, payload \in Drafts : EditContactSave(c, payload)
    \/ \E c \in Callers : ServeMutation(c) /\ UNCHANGED screenVars
    \/ \E c \in Callers : ServeQuery(c) /\ UNCHANGED screenVars
    \/ \E c \in Callers : MutationReturns(c)
    \/ \E c \in Callers : RefetchReturns(c)
    \/ \E c \in Callers : AwaitedRequestFails(c)

\* The app: the screens, the data layer they call, and the server.
AppSpec == AppInit /\ [][AppNext]_allVars

\* The payload of the forms when only the requests matter.
SomeDraft == CHOOSE draft \in Drafts : TRUE

BusyNext ==
    \/ handleAddContact
    \/ \E id \in ObjectIds : handleOpenContact(id)
    \/ handleGoBack
    \/ handleEdit
    \/ requestDelete
    \/ Dismiss
    \/ \E c \in Callers : handleRefresh(c)
    \/ \E c \in Callers : ConfirmDelete(c)
    \/ \E c \in Callers : NewContactSave(c, SomeDraft)
    \/ \E c \in Callers : EditContactSave(c, SomeDraft)
    \/ \E c \in Callers : ServeMutation(c) /\ UNCHANGED screenVars
    \/ \E c \in Callers : ServeQuery(c) /\ UNCHANGED screenVars
    \/ \E c \in Callers : MutationReturns(c)
    \/ \E c \in Callers : RefetchReturns(c)
    \/ \E c \in Callers : AwaitedRequestFails(c)

\* The app with the pulls on its refresh controls, and one payload.
BusySpec == AppInit /\ [][BusyNext]_allVars

----------------------------------------------------------------------------
\* The forms of the new-contact and edit-contact screens.  A string of a
\* form is the sequence of its characters.

\* String.prototype.trim: the string without its leading and trailing
\* white space.
trim(s) ==
    LET solid == {i \in 1..Len(s) : s[i] # " "}
    IN  IF solid = {}
        THEN <<>>
        ELSE SubSeq(s,
                    CHOOSE i \in solid : \A j \in solid : i <= j,
                    CHOOSE i \in solid : \A j \in solid : j <= i)

\* /^\S+@\S+\.\S+$/.test(s): no white space, and an "@" and a later "." with
\* a character before, between and after them.
test(s) ==
    /\ \A i \in 1..Len(s) : s[i] # " "
    /\ \E i, j \in 1..Len(s) :
          /\ s[i] = "@"
          /\ s[j] = "."
          /\ 1 < i
          /\ i + 1 < j
          /\ j < Len(s)

\* Mutant of validate: the fields are checked as typed, not trimmed.
validate_Untrimmed(f) ==
    LET nextErrors ==
            [name |-> IF f.name = <<>> THEN "Name is required" ELSE Undefined,
             email |-> IF f.email # <<>> /\ ~test(f.email)
                       THEN "Enter a valid email"
                       ELSE Undefined,
             phone |-> IF f.phone = <<>> THEN "Phone is required" ELSE Undefined]
    IN  [errors |-> nextErrors,
         payload |-> IF nextErrors # NoErrors
                     THEN Null
                     ELSE [name |-> trim(f.name), email |-> trim(f.email),
                           phone |-> trim(f.phone)]]

\* validate: the error messages it sets, and the payload it returns, or null
\* when a field has an error.
validate(f) ==
    LET trimmedName == trim(f.name)
        trimmedEmail == trim(f.email)
        trimmedPhone == trim(f.phone)
        nextErrors ==
            [name |-> IF trimmedName = <<>>
                      THEN "Name is required"
                      ELSE Undefined,
             email |-> IF trimmedEmail # <<>> /\ ~test(trimmedEmail)
                       THEN "Enter a valid email"
                       ELSE Undefined,
             phone |-> IF trimmedPhone = <<>>
                       THEN "Phone is required"
                       ELSE Undefined]
    IN  [errors |-> nextErrors,
         payload |-> IF nextErrors # NoErrors
                     THEN Null
                     ELSE [name |-> trimmedName, email |-> trimmedEmail,
                           phone |-> trimmedPhone]]

\* What the user types into the fields.
NameInputs == {<<>>, <<" ">>, <<"A">>, <<" ", "A", " ">>}

EmailInputs ==
    {<<>>, <<" ">>,
     <<"a", "@", "b", ".", "c">>,
     <<" ", "a", "@", "b", ".", "c">>,
     <<"a", "@", "b">>,
     <<"a", " ", "@", "b", ".", "c">>,
     <<"@", "b", ".", "c">>,
     <<"a", "@", "b", ".">>}

PhoneInputs == {<<>>, <<" ">>, <<"5">>}

Inputs(key) ==
    IF key = "name" THEN NameInputs
    ELSE IF key = "email" THEN EmailInputs
    ELSE PhoneInputs

\* setField(key)(value): the field changes, and its error message goes.
setField(key, value) ==
    /\ route.name \in {"/contacts/new", "/contacts/[id]/edit"}
    /\ alert = NoAlert
    /\ form' = [form EXCEPT ![key] = value]
    /\ errors' = IF errors[key] # Undefined
                 THEN [errors EXCEPT ![key] = Undefined]
                 ELSE errors
    /\ UNCHANGED <<route, isSubmitting, isDeleting, alert, handlers, error,
                   refreshing, query>>
    /\ UNCHANGED <<data, calls, fresh>>
    /\ UNCHANGED vars

\* validate() has returned null: handleSave returns.
SaveRefused(nextErrors) ==
    /\ errors' = nextErrors
    /\ UNCHANGED <<route, form, isSubmitting, isDeleting, alert, handlers, error,
                   refreshing, query>>
    /\ UNCHANGED <<data, calls, fresh>>
    /\ UNCHANGED vars

\* handleSave of the new-contact screen.
NewContactHandleSave(c) ==
    /\ route.name = "/contacts/new"
    /\ alert = NoAlert
    /\ ~isSubmitting
    /\ LET v == validate(form)
       IN  IF v.payload = Null
           THEN SaveRefused(v.errors)
           ELSE NewContactSave(c, v.payload)

\* handleSave of the edit-contact screen.
EditContactHandleSave(c) ==
    /\ route.name = "/contacts/[id]/edit"
    /\ alert = NoAlert
    /\ ContactShown
    /\ ~(isSubmitting \/ isMutating)
    /\ LET v == validate(form)
       IN  IF v.payload = Null
           THEN SaveRefused(v.errors)
           ELSE EditContactSave(c, v.payload)

\* A contact of the store, which the list query has brought into the cache.
SavedContact ==
    [id |-> 1, name |-> <<"A">>, email |-> <<>>, phone |-> <<"5">>,
     createdAt |-> 0, updatedAt |-> 0]

\* A form screen is open: the new-contact screen with its empty form, or the
\* edit-contact screen with the fields of its contact.
FormInit ==
    /\ store = <<SavedContact>>
    /\ nextId = SavedContact.id + 1
    /\ now = 0
    /\ req = [op |-> "getContacts"]
    /\ response = getContacts(store)
    /\ created = {SavedContact.id}
    /\ deleted = {}
    /\ data = [getContacts |-> store]
    /\ calls = [c \in Callers |->
                  IF c = "first"
                  THEN Settled("useQuery", "resolved", Undefined)
                  ELSE Call("none", "idle", <<>>)]
    /\ fresh = TRUE
    /\ route \in {Route("/contacts/new", DoesNotExist),
                  Route("/contacts/[id]/edit", SavedContact.id)}
    /\ form = IF route.name = "/contacts/new"
              THEN emptyForm
              ELSE [name |-> SavedContact.name, email |-> SavedContact.email,
                    phone |-> SavedContact.phone]
    /\ errors = NoErrors
    /\ isSubmitting = FALSE
    /\ isDeleting = FALSE
    /\ alert = NoAlert
    /\ handlers = [c \in Callers |-> NoHandler]
    /\ error = FALSE
    /\ refreshing = {}
    /\ query = <<>>

FormNext ==
    \/ \E key \in {"name", "email", "phone"} :
           \E value \in Inputs(key) : setField(key, value)
    \/ \E c \in Callers : NewContactHandleSave(c)
    \/ \E c \in Callers : EditContactHandleSave(c)
    \/ \E c \in Callers : AwaitedRequestFails(c)
    \/ Dismiss

\* A form screen, up to the requests its Save button sends.
FormSpec == FormInit /\ [][FormNext]_allVars

----------------------------------------------------------------------------
\* The edit-contact screen while other clients write to the store.

\* The contact of the edit-contact screen, as the list query has brought it
\* into the cache.
EditedContact ==
    [id |-> 1, name |-> "Ada Lovelace", email |-> "ada@example.com",
     phone |-> "555-0100", createdAt |-> 0, updatedAt |-> 0]

\* What the user types into a field of the edit-contact screen.
Typed(key) ==
    IF key = "name" THEN "Ada"
    ELSE IF key = "email" THEN "ada@example.org"
    ELSE "555-0199"

\* The edit-contact screen of the contact is open.
EditInit ==
    /\ store = <<EditedContact>>
    /\ nextId = EditedContact.id + 1
    /\ now = 0
    /\ req = [op |-> "getContacts"]
    /\ response = getContacts(store)
    /\ created = {EditedContact.id}
    /\ deleted = {}
    /\ data = [getContacts |-> store]
    /\ calls = [c \in Callers |->
                  IF c = "first"
                  THEN Settled("useQuery", "resolved", Undefined)
                  ELSE Call("none", "idle", <<>>)]
    /\ fresh = TRUE
    /\ route = Route("/contacts/[id]/edit", EditedContact.id)
    /\ form = [name |-> EditedContact.name, email |-> EditedContact.email,
               phone |-> EditedContact.phone]
    /\ errors = NoErrors
    /\ isSubmitting = FALSE
    /\ isDeleting = FALSE
    /\ alert = NoAlert
    /\ handlers = [c \in Callers |-> NoHandler]
    /\ error = FALSE
    /\ refreshing = {}
    /\ query = <<>>

EditNext ==
    \/ \E key \in {"name", "email", "phone"} :
           ContactShown /\ setField(key, Typed(key))
    \/ handleGoBack
    \/ handleEdit
    \/ Dismiss
    \/ handleRefresh("first")
    \/ EditContactSave("first", form)
    \/ ServeMutation("first") /\ UNCHANGED screenVars
    \/ ServeQuery("first") /\ UNCHANGED screenVars
    \/ MutationReturns("first")
    \/ RefetchReturns("first")
    \/ AwaitedRequestFails("first")
    \/ OtherClient /\ req'.op # "createContact" /\ UNCHANGED screenVars

\* The edit-contact screen, its form as the user types, its calls one at a
\* time, and the server, on which other clients update and delete.
EditSpec == EditInit /\ [][EditNext]_allVars

----------------------------------------------------------------------------
\* The list screen: the search filter and the sections (app/index.tsx).

\* The UTF-16 code unit of a character, by which Array.prototype.sort
\* orders strings.
charCodeAt(ch) ==
    CASE ch = " " -> 32
      [] ch = "#" -> 35
      [] ch = "1" -> 49
      [] ch = "@" -> 64
      [] ch = "A" -> 65
      [] ch = "B" -> 66
      [] ch = "a" -> 97
      [] ch = "b" -> 98

\* String.prototype.toUpperCase and toLowerCase, character by character.
toUpperCase(s) ==
    [i \in 1..Len(s) |->
        IF s[i] = "a" THEN "A" ELSE IF s[i] = "b" THEN "B" ELSE s[i]]

toLowerCase(s) ==
    [i \in 1..Len(s) |->
        IF s[i] = "A" THEN "a" ELSE IF s[i] = "B" THEN "b" ELSE s[i]]

\* s.split(/\s+/): the pieces of s between its runs of white space.
RECURSIVE split(_)
split(s) ==
    LET spaces == {i \in 1..Len(s) : s[i] = " "}
    IN  IF spaces = {}
        THEN <<s>>
        ELSE LET i == CHOOSE k \in spaces : \A l \in spaces : k <= l
                 rest == {k \in (i + 1)..Len(s) : s[k] # " "}
                 j == IF rest = {}
                      THEN Len(s) + 1
                      ELSE CHOOSE k \in rest : \A l \in rest : k <= l
             IN  <<SubSeq(s, 1, i - 1)>> \o split(SubSeq(s, j, Len(s)))

\* parts.join(" ")
RECURSIVE join(_)
join(parts) ==
    IF parts = <<>> THEN <<>>
    ELSE IF Len(parts) = 1 THEN parts[1]
    ELSE parts[1] \o <<" ">> \o join(Tail(parts))

\* haystack.includes(needle)
includes(haystack, needle) ==
    \E i \in 0..(Len(haystack) - Len(needle)) :
        SubSeq(haystack, i + 1, i + Len(needle)) = needle

\* Mutant of the haystack: the empty fields are joined in as well.
haystack_AllFields(contact) ==
    toLowerCase(join(<<contact.name, contact.email, contact.phone>>))

\* [name, email, phone].filter(Boolean).join(" ").toLowerCase()
haystack(contact) ==
    toLowerCase(join(SelectSeq(<<contact.name, contact.email, contact.phone>>,
                               LAMBDA field : field # <<>>)))

\* filteredContacts of the list screen.
filteredContacts ==
    LET normalized == toLowerCase(trim(query))
    IN  IF normalized = <<>>
        THEN contacts
        ELSE SelectSeq(contacts,
                       LAMBDA contact : includes(haystack(contact), normalized))

\* Mutant of the letter of a contact: the first word of the name is taken.
letter_FirstWord(name) ==
    LET parts == split(trim(name))
        lastName == parts[1]
        initial == IF lastName = <<>>
                   THEN <<>>
                   ELSE toUpperCase(<<lastName[1]>>)
    IN  IF initial = <<>> THEN <<"#">> ELSE initial

\* The letter under which a contact is filed: the first character of the
\* last word of its name, in upper case, or "#" when there is none.
letter(name) ==
    LET parts == split(trim(name))
        lastName == parts[Len(parts)]
        initial == IF lastName = <<>>
                   THEN <<>>
                   ELSE toUpperCase(<<lastName[1]>>)
    IN  IF initial = <<>> THEN <<"#">> ELSE initial

\* A title is before another in the order of sort(): by the code units,
\* the shorter of two titles first when it is a prefix of the other.
Before(a, b) ==
    \/ \E i \in 1..Len(a) :
           /\ i <= Len(b)
           /\ charCodeAt(a[i]) < charCodeAt(b[i])
           /\ \A j \in 1..(i - 1) : a[j] = b[j]
    \/ /\ Len(a) < Len(b)
       /\ \A j \in 1..Len(a) : a[j] = b[j]

\* keys.sort()
RECURSIVE sort(_)
sort(keys) ==
    IF keys = {} THEN <<>>
    ELSE LET least == CHOOSE k \in keys : \A l \in keys \ {k} : Before(k, l)
         IN  <<least>> \o sort(keys \ {least})

\* sections of the list screen: the filtered contacts by letter, each
\* letter with its contacts in the order of the filtered list.
sections ==
    LET keys == {letter(filteredContacts[i].name) :
                    i \in 1..Len(filteredContacts)}
        sorted == sort(keys)
    IN  [k \in 1..Len(sorted) |->
            [title |-> sorted[k],
             data |-> SelectSeq(filteredContacts,
                                LAMBDA item : letter(item.name) = sorted[k])]]

\* The names, emails and phones of the contacts of the list, and the texts
\* of the search field.
NameSamples ==
    {<<>>, <<"a">>, <<"A", " ", "b">>, <<"b", " ", " ", "a", " ">>, <<"B">>,
     <<"1">>}

EmailSamples == {<<>>, <<"a", "@", "b">>}

PhoneSamples == {<<>>, <<"1">>}

QueryInputs ==
    {<<>>, <<" ">>, <<"a">>, <<"A">>, <<" ", "b", " ">>, <<"a", " ", "1">>,
     <<"@">>, <<"#">>}

\* The lists of up to MaxContacts contacts, with the ids in the order in
\* which the store assigned them.
ContactLists ==
    UNION {[1..n -> [name : NameSamples, email : EmailSamples,
                     phone : PhoneSamples]] : n \in 0..MaxContacts}

\* The list screen shows a list the list query has brought into the cache.
ListInit ==
    /\ \E list \in ContactLists :
           store = [i \in 1..Len(list) |->
                       [id |-> i, name |-> list[i].name,
                        email |-> list[i].email, phone |-> list[i].phone,
                        createdAt |-> 0, updatedAt |-> 0]]
    /\ nextId = Len(store) + 1
    /\ now = 0
    /\ req = [op |-> "getContacts"]
    /\ response = getContacts(store)
    /\ created = Ids(store)
    /\ deleted = {}
    /\ data = [getContacts |-> store]
    /\ calls = [c \in Callers |->
                  IF c = "first"
                  THEN Settled("useQuery", "resolved", Undefined)
                  ELSE Call("none", "idle", <<>>)]
    /\ fresh = TRUE
    /\ route = Index
    /\ form = emptyForm
    /\ errors = NoErrors
    /\ isSubmitting = FALSE
    /\ isDeleting = FALSE
    /\ alert = NoAlert
    /\ handlers = [c \in Callers |-> NoHandler]
    /\ error = FALSE
    /\ refreshing = {}
    /\ query = <<>>

\* setQuery: the user changes the text of the search field.
setQuery(text) ==
    /\ route = Index
    /\ ListShown
    /\ query' = text
    /\ UNCHANGED <<route, form, errors, isSubmitting, isDeleting, alert, handlers,
                   error, refreshing>>
    /\ UNCHANGED <<data, calls, fresh>>
    /\ UNCHANGED vars

ListNext == \E text \in QueryInputs : setQuery(text)

\* The list screen over a cached list, as the user searches.
ListSpec == ListInit /\ [][ListNext]_allVars

----------------------------------------------------------------------------
\* Arguments of the requests.

NameArgs == Names \cup {Undefined}

EmailArgs == Emails \cup {Undefined}

PhoneArgs == Phones \cup {Undefined}

\* The step handles a request of the operation: every step but Tick handles
\* a request and records it, and Tick alone advances the clock.
Handles(op) == req'.op = op /\ now' = now

\* No id occurs twice in a collection.
NoDuplicateIds(docs) ==
    \A i, j \in 1..Len(docs) : docs[i].id = docs[j].id => i = j

----------------------------------------------------------------------------
\* C1: for every valid (name, email, phone), createContact followed by
\* getContact(returnedId) returns a record whose name, email and phone are
\* the inputs and whose createdAt equals its updatedAt.
C1_CreateThenGet ==
    [][Handles("createContact") =>
          \A name \in Names, email \in Emails, phone \in Phones :
              CreateContact(name, email, phone) =>
                  LET got == getContact(store', response'.value.id)
                  IN  /\ got.kind = "data"
                      /\ got.value # Null
                      /\ got.value.name = name
                      /\ got.value.email = email
                      /\ got.value.phone = phone
                      /\ got.value.createdAt = got.value.updatedAt]_vars

\* A second contact was created after the clock advanced, and a lookup of
\* the returned id finds it.
C1_Witness ==
    /\ req.op = "createContact"
    /\ Len(store) = 2
    /\ response.value.createdAt = 1
    /\ getContact(store, response.value.id) = Data(response.value)

\* C2: for every existing id, updateContact changes exactly the provided
\* fields and updatedAt; every omitted field of that record keeps its value,
\* id and createdAt stay, and no other record changes.
C2_PartialUpdateFrame ==
    [][(Handles("updateContact") /\ findById(store, req'.id) # Null) =>
          \A name \in NameArgs, email \in EmailArgs, phone \in PhoneArgs :
              UpdateContact(req'.id, name, email, phone) =>
                  LET old == findById(store, req'.id)
                      new == findById(store', req'.id)
                  IN  /\ new # Null
                      /\ new.name = IF name = Undefined THEN old.name ELSE name
                      /\ new.email = IF email = Undefined THEN old.email ELSE email
                      /\ new.phone = IF phone = Undefined THEN old.phone ELSE phone
                      /\ new.updatedAt = now
                      /\ new.id = old.id
                      /\ new.createdAt = old.createdAt
                      /\ Len(store') = Len(store)
                      /\ \A i \in 1..Len(store) :
                             store[i].id # req'.id => store'[i] = store[i]]_vars

\* An update that left an argument out succeeded on one of two records, after
\* the record's creation.
C2_Witness ==
    /\ req.op = "updateContact"
    /\ req.partial
    /\ response.kind = "data"
    /\ Len(store) = 2
    /\ response.value.createdAt < response.value.updatedAt

\* C3: updateContact on an id that matches no record yields an error result,
\* never a null or successful result, and leaves the store unchanged.
C3_UpdateMissingIsError ==
    [][(Handles("updateContact") /\ findById(store, req'.id) = Null) =>
          /\ response'.kind = "error"
          /\ store' = store]_vars

\* An update of a deleted id was answered with an error while another record
\* is live.
C3_Witness ==
    /\ req.op = "updateContact"
    /\ req.id \in deleted
    /\ response.kind = "error"
    /\ Len(store) = 1

\* C4: deleteContact on an existing id returns true and every later
\* getContact of that id returns absent; deleteContact on an id that matches
\* no record returns false, without an error, and leaves the store unchanged.
C4_DeleteResult ==
    [][/\ Handles("deleteContact") =>
              \A id \in RequestIds :
                  DeleteContact(id) =>
                      IF findById(store, id) # Null
                      THEN /\ response' = Data(TRUE)
                           /\ getContact(store', id) = Data(Null)
                      ELSE /\ response' = Data(FALSE)
                           /\ store' = store
       /\ \A id \in deleted' : getContact(store', id) = Data(Null)]_vars

\* C5: getContact on an id that matches no record returns absent and never
\* an error result.
C5_GetMissingIsAbsent ==
    (req.op = "getContact" /\ req.id \notin Ids(store)) =>
        /\ response.kind = "data"
        /\ response.value = Null

\* C6: no two live records share an id.
C6_UniqueIds == NoDuplicateIds(store)

\* Two records are live after a successful update.
C6_Witness ==
    /\ Len(store) = 2
    /\ store[1].id # store[2].id
    /\ req.op = "updateContact"
    /\ response.kind = "data"

\* C7: every live record satisfies createdAt <= updatedAt.
C7_CreatedBeforeUpdated ==
    \A i \in 1..Len(store) : store[i].createdAt <= store[i].updatedAt

\* One record was updated after its creation, another was created later.
C7_Witness ==
    /\ Len(store) = 2
    /\ store[1].createdAt < store[1].updatedAt
    /\ store[2].createdAt = store[2].updatedAt
    /\ store[2].createdAt > store[1].createdAt

\* C8: a record's id and createdAt never change while it is live: in every
\* step, every record of the new store is either newly created or has the id
\* and createdAt of a record of the old store, and every record of the old
\* store keeps its id unless that step deleted it.
C8_IdAndCreatedAtImmutable ==
    [][/\ \A i \in 1..Len(store') :
              \/ /\ store'[i].id \in created' \ created
                 /\ store'[i].createdAt = now
              \/ \E j \in 1..Len(store) :
                     /\ store[j].id = store'[i].id
                     /\ store[j].createdAt = store'[i].createdAt
       /\ \A j \in 1..Len(store) :
              \/ store[j].id \in deleted' \ deleted
              \/ store[j].id \in Ids(store')]_vars

\* A record created at time 0 was updated at time 1 and still has its id and
\* createdAt.
C8_Witness ==
    /\ req.op = "updateContact"
    /\ response.kind = "data"
    /\ response.value.id = 1
    /\ response.value.createdAt = 0
    /\ response.value.updatedAt = 1

\* C9: every successful updateContact sets updatedAt to the time of the
\* update, so an update later than the creation leaves updatedAt >
\* createdAt, and updatedAt never decreases across updates of a record.
C9_UpdatedAtRefreshed ==
    [][(Handles("updateContact") /\ response'.kind = "data") =>
          LET old == findById(store, req'.id)
              new == findById(store', req'.id)
          IN  /\ old # Null /\ new # Null
              /\ new.updatedAt = now
              /\ now > old.createdAt => new.updatedAt > new.createdAt
              /\ new.updatedAt >= old.updatedAt]_vars

\* The second of two records, created at time 0, was updated at time 1.
C9_Witness ==
    /\ req.op = "updateContact"
    /\ response.kind = "data"
    /\ Len(store) = 2
    /\ response.value = store[2]
    /\ response.value.createdAt = 0
    /\ response.value.updatedAt = 1
    /\ now = 1

\* C10: getContacts returns exactly the live records at the moment of the
\* read: every contact created and not deleted appears once, as it is in the
\* store, and no deleted contact appears.
C10_GetContactsIsLiveSet ==
    req.op = "getContacts" =>
        /\ response.kind = "data"
        /\ Ids(response.value) = created \ deleted
        /\ NoDuplicateIds(response.value)
        /\ Range(response.value) = Range(store)
        /\ Len(response.value) = Len(store)

\* getContacts answered with one record after another was deleted.
C10_Witness ==
    /\ req.op = "getContacts"
    /\ deleted # {}
    /\ Len(response.value) = 1
    /\ response.value[1].id \in created \ deleted

----------------------------------------------------------------------------
\* The client data layer.

\* In the step, the mutation a call awaits settles with a result.
MutationSucceeds(c) ==
    /\ calls[c].pc = "mutation"
    /\ calls'[c].pc \notin {"mutation", "rejected"}

\* In the step, the list a call's refetch awaits arrives.
RefetchLands(c) ==
    /\ calls[c].pc = "refetch"
    /\ calls'[c].pc = "resolved"

\* C11: addContact sends the create request and, once its response is
\* there, sends the list query; the cached list changes only when that
\* query's response arrives, never by an insert of addContact itself; and
\* the call returns the id of the contact the create returned.
C11_AddThenRefresh ==
    [][\A c \in Callers :
          calls[c].fn = "addContact" /\ InProgress(c) =>
              /\ MutationSucceeds(c) =>
                     /\ calls'[c].pc = "refetch"
                     /\ calls'[c].net = "sent"
                     /\ data' = data
              /\ data' # data =>
                     /\ RefetchLands(c)
                     /\ data' = [getContacts |-> calls[c].list.value]
              /\ calls'[c].pc = "resolved" =>
                     /\ RefetchLands(c)
                     /\ calls'[c].result = calls[c].response.value.id
                     /\ calls'[c].result \in created]_allVars

\* An addContact has returned the id of a contact that the refresh has
\* brought into the cached list.
C11_Witness ==
    /\ calls["first"].fn = "addContact"
    /\ calls["first"].pc = "resolved"
    /\ calls["first"].result \in Ids(contacts)

\* C12: updateContact and deleteContact of the data layer send the list
\* query only after the response to their mutation has arrived; with no
\* other mutation reaching the store in between, the list that query returns
\* has the updated fields of the record, or lacks the deleted record.
C12_MutateThenRefresh ==
    \A c \in Callers :
        calls[c].fn \in {"updateContact", "deleteContact"}
        /\ calls[c].pc = "refetch" =>
            LET v == calls[c].variables
            IN  /\ calls[c].response # Null
                /\ calls[c].response.kind = "data"
                /\ calls[c].net = "handled" /\ calls[c].clean =>
                       IF calls[c].fn = "deleteContact"
                       THEN v.id \notin Ids(calls[c].list.value)
                       ELSE /\ v.id \in Ids(calls[c].list.value)
                            /\ LET k == getContactById(calls[c].list.value, v.id)
                               IN  /\ k.name = v.name
                                   /\ k.email = v.email
                                   /\ k.phone = v.phone

\* The list on its way back to an updateContact has the new name of the
\* record, which the cached list still shows under its old name.
C12_Witness ==
    LET call == calls["first"]
    IN  /\ call.fn = "updateContact"
        /\ call.pc = "refetch"
        /\ call.net = "handled"
        /\ call.clean
        /\ call.variables.id \in Ids(contacts)
        /\ getContactById(contacts, call.variables.id).name # call.variables.name
        /\ getContactById(call.list.value, call.variables.id).name
               = call.variables.name

\* C13: a mutation that fails, by an error result or in the network, makes
\* its call reject with the cached list as it was; the call sends no list
\* query, and the request is not sent a second time.
C13_FailedMutation ==
    [][\A c \in Callers :
          calls[c].fn \in Mutations /\ calls[c].pc = "mutation" =>
              /\ \/ /\ calls[c].net = "handled"
                    /\ calls[c].response.kind = "error"
                    /\ calls'[c].pc # "mutation"
                 \/ calls'[c].pc = "rejected"
                 => /\ calls'[c] = Settled(calls[c].fn, "rejected", Undefined)
                    /\ data' = data
              /\ calls[c].net = "handled" =>
                     calls'[c].net # "sent" \/ calls'[c].pc = "refetch"]_allVars

\* A mutating call has rejected, and the cached list has its contacts.
C13_Witness ==
    /\ calls["first"].fn \in Mutations
    /\ calls["first"].pc = "rejected"
    /\ contacts # <<>>

\* C14: when the response to the list query of a refresh arrives, the cached
\* list becomes exactly the list of that response.
C14_RefreshReplaces ==
    [][\A c \in Callers :
          RefetchLands(c) =>
              /\ data' # NoData
              /\ data'.getContacts = calls[c].list.value]_allVars

\* The list on its way back to a refresh lacks a contact of the cached list.
C14_Witness ==
    /\ calls["first"].fn = "refreshContacts"
    /\ calls["first"].pc = "refetch"
    /\ calls["first"].net = "handled"
    /\ \E id \in Ids(contacts) : id \notin Ids(calls["first"].list.value)

\* C15: when no mutation has reached the store since the cached list was
\* read from it, nor since the list of a further refresh was read, the
\* arrival of that list leaves the cached list as it is.
C15_RefreshIdempotent ==
    [][\A c \in Callers :
          RefetchLands(c) /\ fresh /\ calls[c].current => data' = data]_allVars

\* The list of a second refresh is on its way back, with no mutation since
\* the first one read the cached list.
C15_Witness ==
    /\ calls["first"].fn = "refreshContacts"
    /\ calls["first"].pc = "refetch"
    /\ calls["first"].net = "handled"
    /\ calls["first"].current
    /\ fresh
    /\ contacts # <<>>

\* C16: getContactById returns the contact of the cached list with the id,
\* or undefined when the cached list has none, whatever the store holds.
C16_LookupReadsCache ==
    \A id \in RequestIds :
        LET r == getContactById(contacts, id)
        IN  IF id \in Ids(contacts)
            THEN r \in Range(contacts) /\ r.id = id
            ELSE r = NotFound

\* A contact is gone from the store, a list without it is on its way back,
\* and the lookup still returns the cached contact.
C16_Witness ==
    \E id \in Ids(contacts) :
        /\ id \notin Ids(store)
        /\ calls["first"].pc = "refetch"
        /\ calls["first"].net = "handled"
        /\ id \notin Ids(calls["first"].list.value)
        /\ getContactById(contacts, id).id = id

\* In the step, the server handles the mutation request of a call.
MutationServed(c) ==
    /\ calls[c].pc = "mutation"
    /\ calls[c].net = "sent"
    /\ calls'[c].net = "handled"

\* The request and the responses of a call.
Exchange(call) == <<call.pc, call.net, call.response, call.list>>

\* C18: of two calls in progress at once, the mutation of each reaches the
\* store without a change to the other call (a create adds its contact, a
\* delete removes its record), each call sends its own list query once its
\* mutation has succeeded, and the list that arrives becomes the cached
\* list, also when the list of the other call was read later.
C18_ConcurrentMutations ==
    [][\A c, d \in Callers :
          c # d /\ InProgress(c) /\ InProgress(d) =>
              /\ MutationServed(c) =>
                     /\ Exchange(calls'[d]) = Exchange(calls[d])
                     /\ calls[c].fn = "addContact" =>
                            /\ calls'[c].response.kind = "data"
                            /\ store' = save(store, calls'[c].response.value)
                     /\ calls[c].fn = "deleteContact" =>
                            /\ calls'[c].response.kind = "data"
                            /\ calls[c].variables.id \notin Ids(store')
              /\ MutationSucceeds(c) =>
                     /\ calls'[c].pc = "refetch"
                     /\ calls'[c].net = "sent"
                     /\ calls'[d] = calls[d]
              /\ RefetchLands(c) =>
                     /\ data' = [getContacts |-> calls[c].list.value]
                     /\ calls'[d] = calls[d]]_allVars

\* Two mutating calls that overlapped have resolved, and the list that
\* arrived last was read before the other call's mutation: the cached list
\* is not the store's.
C18_Witness ==
    /\ \A c \in Callers :
           calls[c].fn \in Mutations /\ calls[c].pc = "resolved"
    /\ contacts # find(store)

\* C19: an updateContact request for a record of the store succeeds and
\* leaves the record with the fields of that request, whatever other update
\* of the record is on its way or has been applied: the last request the
\* store handles wins.
C19_LastWriteWins ==
    [][\A c \in Callers :
          /\ calls[c].fn = "updateContact"
          /\ MutationServed(c)
          /\ calls[c].variables.id \in Ids(store)
          => LET v == calls[c].variables
                 k == findById(store', v.id)
             IN  /\ calls'[c].response.kind = "data"
                 /\ k # Null
                 /\ k.name = v.name
                 /\ k.email = v.email
                 /\ k.phone = v.phone]_allVars

\* Two updateContact calls for the same record with different names have
\* both succeeded, and the record has the name of the second.
C19_Witness ==
    LET a == calls["first"]
        b == calls["second"]
    IN  /\ a.fn = "updateContact" /\ b.fn = "updateContact"
        /\ a.response # Null /\ b.response # Null
        /\ a.response.kind = "data" /\ b.response.kind = "data"
        /\ a.variables.id = b.variables.id
        /\ a.variables.name # b.variables.name
        /\ findById(store, b.variables.id) # Null
        /\ findById(store, b.variables.id).name = b.variables.name

----------------------------------------------------------------------------
\* The screens.

\* C17: at most one create, update or delete request of the screens is
\* outstanding at a time.
C17_OneMutationInFlight ==
    Cardinality({c \in Callers :
                    calls[c].fn \in Mutations /\ calls[c].pc = "mutation"}) <= 1

\* The form has an empty name or phone after trimming, or an email that is
\* not empty after trimming and not of the form x@y.z.
Invalid(f) ==
    \/ trim(f.name) = <<>>
    \/ trim(f.phone) = <<>>
    \/ trim(f.email) # <<>> /\ ~test(trim(f.email))

\* The error messages of the fields of a form.
Messages(f) ==
    [name |-> IF trim(f.name) = <<>> THEN "Name is required" ELSE Undefined,
     email |-> IF trim(f.email) # <<>> /\ ~test(trim(f.email))
               THEN "Enter a valid email"
               ELSE Undefined,
     phone |-> IF trim(f.phone) = <<>> THEN "Phone is required" ELSE Undefined]

\* C20: while the form of the new-contact or edit-contact screen has an
\* empty name or phone after trimming, or a malformed email, no step sends
\* a create or update request; Save sets the error messages of the fields
\* and leaves the calls of the data layer and isSubmitting as they were.
C20_InvalidFormSendsNothing ==
    [][Invalid(form) =>
          /\ \A c \in Callers :
                 calls'[c].pc = "mutation" => calls[c].pc = "mutation"
          /\ \A c \in Callers :
                 NewContactHandleSave(c) \/ EditContactHandleSave(c) =>
                     /\ errors' = Messages(form)
                     /\ errors' # NoErrors
                     /\ calls' = calls
                     /\ isSubmitting' = isSubmitting]_allVars

\* Save has set the messages of a form with a blank name and a malformed
\* email, and no request is on its way.
C20_Witness ==
    /\ Invalid(form)
    /\ errors.name = "Name is required"
    /\ errors.email = "Enter a valid email"
    /\ \A c \in Callers : calls[c].pc # "mutation"

\* C21: isMutating is true exactly when a create, update or delete request
\* of the data layer is outstanding: sent, with its response not yet back.
\* It is false while no call awaits anything but a list query, whether the
\* query of the mount, of refreshContacts or of the refresh after a mutation.
C21_IsMutating ==
    /\ isMutating <=>
           \E c \in Callers :
               /\ calls[c].fn \in Mutations
               /\ calls[c].pc = "mutation"
               /\ calls[c].net \in {"sent", "handled"}
    /\ (\A c \in Callers : InProgress(c) => calls[c].pc = "refetch")
           => ~isMutating

\* A deleteContact has its mutation behind it and awaits its refresh:
\* isMutating is down while the call is in progress.
C21_Witness ==
    /\ calls["first"].fn = "deleteContact"
    /\ calls["first"].pc = "refetch"
    /\ calls["first"].net = "sent"
    /\ calls["first"].response = Data(TRUE)
    /\ ~isMutating

\* In the step, the caller calls a function of the data layer.
Invokes(c) ==
    \/ RefreshContacts(c)
    \/ \E draft \in Drafts : AddContact(c, draft)
    \/ \E id \in RequestIds, draft \in Drafts : ClientUpdateContact(c, id, draft)
    \/ \E id \in RequestIds : ClientDeleteContact(c, id)

\* C22: a mutation request goes out only in the step in which addContact,
\* updateContact or deleteContact is called, and once the server has handled
\* it, it is not handled again; when the request fails, the call rejects in that step, and a
\* call that has rejected stays so until the caller calls again.
C22_SentOnceFailsOnce ==
    [][\A c \in Callers :
          /\ (/\ calls'[c].pc = "mutation"
               /\ calls'[c].net = "sent"
               /\ calls'[c] # calls[c]) => Invokes(c)
          /\ (/\ calls[c].pc = "mutation"
               /\ calls[c].net = "handled") =>
                  calls'[c].net = "handled" \/ calls'[c].pc # "mutation"
          /\ (/\ calls[c].pc = "mutation"
               /\ calls'[c].pc \notin {"mutation", "refetch"}) =>
                  calls'[c] = Settled(calls[c].fn, "rejected", Undefined)
          /\ (/\ calls[c].pc = "rejected"
               /\ calls'[c] # calls[c]) => Invokes(c)]_allVars

\* An updateContact has rejected with the error result of the server, which
\* has handled no request since.
C22_Witness ==
    /\ calls["first"].fn = "updateContact"
    /\ calls["first"].pc = "rejected"
    /\ req.op = "updateContact"
    /\ response.kind = "error"

\* C23: with no other client and no failed request, once the mutating calls
\* of the data layer have all resolved, their refreshes included, the cached
\* list is the list of the store.
C23_SettledCacheIsStore ==
    (\A c \in Callers : calls[c].fn \in Mutations /\ ~InProgress(c))
        => contacts = find(store)

\* The mutation of a call has changed the store: the resolver has created or
\* updated the contact, or deleted the record.
Applied(call) ==
    /\ call.response # Null
    /\ call.response.kind = "data"
    /\ call.fn = "deleteContact" => call.response.value

\* C24: when addContact, updateContact or deleteContact of the data layer
\* rejects, the mutation of that call has not changed the store.
C24_RejectedMeansUnchanged ==
    [][\A c \in Callers :
          /\ calls[c].fn \in Mutations
          /\ InProgress(c)
          /\ calls'[c].pc = "rejected"
          => ~Applied(calls[c])]_allVars

----------------------------------------------------------------------------
\* The store over time.

\* C25: once deleteContact(id) has returned true, no store state has a
\* record with that id: updateContact adds no id to the store, and the id
\* createContact assigns was never assigned before.
C25_DeletedStaysDeleted ==
    [][/\ deleted' \cap Ids(store') = {}
       /\ Handles("updateContact") => Ids(store') = Ids(store)
       /\ Handles("createContact") =>
              /\ response'.value.id \notin created \cup deleted \cup Ids(store)
              /\ Ids(store') = Ids(store) \cup {response'.value.id}]_vars

\* After a delete, a create has added a contact under an id that was never
\* deleted.
C25_Witness ==
    /\ req.op = "createContact"
    /\ deleted # {}
    /\ Ids(store) = created \ deleted
    /\ response.value.id \in Ids(store)

----------------------------------------------------------------------------
\* The handlers of the screens.

\* The handler that awaits the call is handleSave of the new-contact screen.
SavesNew(c) == handlers[c].name = "NewContactScreen.handleSave"

\* C26: the new-contact screen gives way to a contact screen only in the
\* step in which the list of addContact's refresh arrives and the call
\* resolves; the route is then the contact screen of the id the create
\* returned, and getContactById finds that id in the cached list unless a
\* delete of it has reached the store meanwhile.  When the call rejects, the
\* failure alert is shown and the route stays.
C26_NavigatesAfterRefresh ==
    [][/\ (route.name = "/contacts/new" /\ route'.name = "/contacts/[id]") =>
              \E c \in Callers : SavesNew(c) /\ RefetchLands(c)
       /\ \A c \in Callers :
              SavesNew(c) =>
                  /\ calls'[c].pc = "resolved" =>
                         /\ RefetchLands(c)
                         /\ calls[c].response.kind = "data"
                         /\ route' = Route("/contacts/[id]",
                                           calls[c].response.value.id)
                         /\ route'.id \notin deleted =>
                                /\ getContactById(contacts', route'.id) # NotFound
                                /\ getContactById(contacts', route'.id).id
                                       = route'.id
                         /\ alert' = alert
                  /\ calls'[c].pc = "rejected" =>
                         /\ route' = route
                         /\ alert'.title = "Something went wrong"]_allVars

\* The contact screen of a second contact is open after its create and
\* refresh, and the cached list has the contact.
C26_Witness ==
    /\ route.name = "/contacts/[id]"
    /\ \E c \in Callers :
           /\ calls[c].fn = "addContact"
           /\ calls[c].pc = "resolved"
           /\ calls[c].result = route.id
    /\ Len(contacts) = 2
    /\ getContactById(contacts, route.id) = contacts[2]

\* A handler with one of the names, which ran on the screen, awaits its call
\* and the screen is still mounted.
Pending(names, at) ==
    \E c \in Callers :
        /\ handlers[c].name \in names
        /\ handlers[c].at = at
        /\ handlers[c].live
        /\ InProgress(c)

Fields(contact) ==
    [name |-> contact.name, email |-> contact.email, phone |-> contact.phone]

\* C28: while the edit-contact screen is on top, a step after which
\* getContactById returns another contact for its id sets the form to the
\* fields of that contact, whatever the form held; a step after which it
\* returns undefined leaves the form as it is; and while it returns
\* undefined no step sends an update request.
C28_FormFollowsContact ==
    [][(route.name = "/contacts/[id]/edit" /\ route' = route) =>
          LET before == getContactById(contacts, route.id)
              after == getContactById(contacts', route.id)
          IN  /\ (after # NotFound /\ after # before) => form' = Fields(after)
              /\ (after = NotFound /\ data' # data) => form' = form
              /\ before = NotFound =>
                     \A c \in Callers :
                         (/\ calls'[c].fn = "updateContact"
                          /\ calls'[c].pc = "mutation")
                         => calls[c].pc = "mutation"]_allVars

\* The user has typed a name into the form, and a list in which another
\* client has changed the contact is on its way back to a refresh.
C28_Witness ==
    /\ route.name = "/contacts/[id]/edit"
    /\ ContactShown
    /\ form.name = "Ada"
    /\ \E c \in Callers :
           /\ calls[c].pc = "refetch"
           /\ calls[c].net = "handled"
           /\ getContactById(calls[c].list.value, route.id) # NotFound
           /\ getContactById(calls[c].list.value, route.id)
                  # getContactById(contacts, route.id)

----------------------------------------------------------------------------
\* The list screen.

\* The title the list screen is to file a name under.
TitleOf(name) ==
    LET t == trim(name)
        spaces == {i \in 1..Len(t) : t[i] = " "}
        start == IF spaces = {}
                 THEN 1
                 ELSE 1 + (CHOOSE i \in spaces : \A j \in spaces : j <= i)
    IN  IF t = <<>> THEN <<"#">> ELSE toUpperCase(<<t[start]>>)

\* C29: the sections of the list screen partition the filtered contacts:
\* every filtered contact is in exactly one section, the one whose title is
\* the first character of the last word of its name in upper case, or "#"
\* for a blank name; no section is empty; and the titles ascend.
C29_SectionsPartition ==
    /\ \A i \in 1..Len(filteredContacts) :
           \E k \in 1..Len(sections) :
               /\ filteredContacts[i] \in Range(sections[k].data)
               /\ \A l \in 1..Len(sections) :
                      filteredContacts[i] \in Range(sections[l].data) => l = k
    /\ \A k \in 1..Len(sections) :
           /\ sections[k].data # <<>>
           /\ NoDuplicateIds(sections[k].data)
           /\ \A j \in 1..Len(sections[k].data) :
                  /\ sections[k].data[j] \in Range(filteredContacts)
                  /\ sections[k].title = TitleOf(sections[k].data[j].name)
    /\ \A k \in 1..(Len(sections) - 1) :
           Before(sections[k].title, sections[k + 1].title)

\* Two contacts pass the search for "@" and are filed under "#", for the
\* blank name, and under "B", for the last word of "A b".
C29_Witness ==
    /\ query = <<"@">>
    /\ Len(filteredContacts) = 2
    /\ Len(sections) = 2
    /\ sections[1].title = <<"#">>
    /\ sections[1].data[1].name = <<>>
    /\ sections[2].title = <<"B">>
    /\ sections[2].data[1].name = <<"A", " ", "b">>

\* Two texts with a single space between them, or the one that is not
\* empty.
Spaced(a, b) ==
    IF a = <<>> THEN b ELSE IF b = <<>> THEN a ELSE a \o <<" ">> \o b

\* The text of a contact that the search reads: "name email phone" in lower
\* case, without the empty fields.
SearchText(contact) ==
    toLowerCase(Spaced(Spaced(contact.name, contact.email), contact.phone))

\* The contact matches a text: the text occurs in its search text.
Matches(contact, text) ==
    \E i, j \in 1..Len(SearchText(contact)) :
        SubSeq(SearchText(contact), i, j) = text

\* C30: with an empty or blank query the search returns the cached list;
\* otherwise it returns the cached contacts whose search text contains the
\* trimmed query in lower case, in the order of the cached list.  The
\* result is a sub-list of the cached list.
C30_SearchFilter ==
    LET text == toLowerCase(trim(query))
    IN  /\ trim(query) = <<>> => filteredContacts = contacts
        /\ trim(query) # <<>> =>
               filteredContacts =
                   SelectSeq(contacts, LAMBDA contact : Matches(contact, text))
        /\ \A i \in 1..Len(filteredContacts) :
               LET at == indexOfId(contacts, filteredContacts[i].id)
               IN  /\ at # 0
                   /\ contacts[at] = filteredContacts[i]
                   /\ \A j \in 1..(i - 1) :
                          indexOfId(contacts, filteredContacts[j].id) < at

\* The search for "a 1" returns the second of two contacts, whose name "a"
\* and phone "1" are next to each other because its email is empty.
C30_Witness ==
    /\ query = <<"a", " ", "1">>
    /\ Len(contacts) = 2
    /\ filteredContacts = <<contacts[2]>>
    /\ contacts[2].name = <<"a">>
    /\ contacts[2].email = <<>>
    /\ contacts[2].phone = <<"1">>

====
